---- MODULE Spec2Model ----
(***************************************************************************)
(* qb-sync: the poll-process-reconcile loop of internal/worker/monitor.go, *)
(* the file placement of internal/files and the start-up / shutdown        *)
(* protocol of cmd/qb-sync/main.go.                                        *)
(*                                                                         *)
(* Strings that the code inspects (file names, paths, error messages) are  *)
(* sequences of tokens; a path separator is the token "/".                 *)
(***************************************************************************)
EXTENDS Integers, Sequences, FiniteSets, TLC

\* ------------------------------------------------------------------ bounds

\* Number of files in the longest file listing the Gateway returns.
MaxFiles == 2

\* Number of times LinkOrCopy is called on the same inputs in SpecPlace.
MaxCalls == 2

\* Number of consecutive failed Login attempts that are followed.
MaxLoginFailures == 3

\* Number of consecutive failed ticks that are followed; the backoff reaches
\* its ceiling at the seventh.
MaxTickFailures == 8

\* ------------------------------------------------------- program constants

\* time.Second, the initial and the reset value of Monitor.backoff (seconds).
InitialBackoff == 1

\* 2*time.Minute, the ceiling of Monitor.backoff (seconds).
MaxBackoff == 120

\* ---------------------------------------------------------------- strings

\* strings.HasSuffix(s, suffix)
HasSuffix(s, suffix) ==
    /\ Len(s) >= Len(suffix)
    /\ SubSeq(s, Len(s) - Len(suffix) + 1, Len(s)) = suffix

\* The suffix qBittorrent gives to files it has not finished: ".!qB".
IncompleteMarker == <<".!qB">>

\* filepath.Join of two cleaned, non-empty paths.
Join(a, b) == a \o <<"/">> \o b

\* Index of the last separator of p, 0 when there is none.
LastSep(p) ==
    LET S == {i \in 1..Len(p) : p[i] = "/"}
    IN  IF S = {} THEN 0 ELSE CHOOSE i \in S : \A j \in S : j <= i

\* filepath.Dir(p)
Dir(p) == IF LastSep(p) = 0 THEN <<".">> ELSE SubSeq(p, 1, LastSep(p) - 1)

\* The proper ancestors of p that are directories MkdirAll(p) walks through.
Ancestors(p) == {SubSeq(p, 1, i - 1) : i \in {j \in 1..Len(p) : p[j] = "/"}}

\* ----------------------------------------------------------------- errors

NoErr == [kind |-> "nil", text |-> <<>>]

\* *os.LinkError / *os.PathError / fmt.Errorf values: the kind is what the
\* caller could test with errors.Is, the text is err.Error().
Err(kind, text) == [kind |-> kind, text |-> text]

\* fmt.Errorf("...: %w", err)
Wrap(prefix, err) == [kind |-> err.kind, text |-> <<prefix>> \o err.text]

\* ------------------------------------------------------------- filesystem
\* fs.src   : source path -> size in bytes of the file the client wrote
\* fs.dst   : destination path -> [size, from, linked]; from is the source
\*            path whose bytes the file holds, linked is TRUE when the file
\*            shares its inode with that source (a hard link)
\* fs.dirs  : the destination directories that exist
\* fs.xdev  : TRUE when source and destination are on different devices

\* os.Stat(path) on the destination tree: err == nil
StatOk(fs, path) == path \in DOMAIN fs.dst

\* os.MkdirAll(dir, 0755): fails when a regular file is in the way.
MkdirAllFails(fs, dir) == \E p \in Ancestors(dir) \cup {dir} : p \in DOMAIN fs.dst

MkdirAll(fs, dir) == [fs EXCEPT !.dirs = @ \cup {dir}]

\* os.Link(src, dst); linkat(2) reports ENOENT, EEXIST, EXDEV in this order.
OsLink(fs, src, dst) ==
    IF src \notin DOMAIN fs.src
    THEN [err |-> Err("ENOENT", <<"link">> \o src \o dst \o <<"no such file or directory">>),
          fs  |-> fs]
    ELSE IF dst \in DOMAIN fs.dst
    THEN [err |-> Err("EEXIST", <<"link">> \o src \o dst \o <<"file exists">>),
          fs  |-> fs]
    ELSE IF fs.xdev
    THEN [err |-> Err("EXDEV", <<"link">> \o src \o dst \o <<"invalid cross-device link">>),
          fs  |-> fs]
    ELSE [err |-> NoErr,
          fs  |-> [fs EXCEPT !.dst = (dst :> [size |-> fs.src[src], from |-> src,
                                               linked |-> TRUE]) @@ @]]

\* The tokens of an error text in which strings.Contains finds
\* "cross-device", "invalid cross-device link" or "EXDEV".
CrossDeviceTokens == {"invalid cross-device link", "cross-device", "EXDEV"}

\* A slip: no error is taken for a cross-device one.
isCrossDeviceErrorNever(err) == FALSE

\* files.isCrossDeviceError(err): a test on err.Error()
isCrossDeviceError(err) ==
    /\ err.kind # "nil"
    /\ \E i \in 1..Len(err.text) : err.text[i] \in CrossDeviceTokens

\* Opening dst with O_WRONLY|O_CREATE|O_TRUNC: the file is created or
\* emptied; emptying a hard link empties the inode it shares.
Truncate(fs, dst) ==
    LET old    == IF dst \in DOMAIN fs.dst THEN fs.dst[dst] ELSE [size |-> 0, from |-> dst, linked |-> FALSE]
        shared == dst \in DOMAIN fs.dst /\ old.linked
        src1   == IF shared THEN [fs.src EXCEPT ![old.from] = 0] ELSE fs.src
        dst1   == [p \in DOMAIN fs.dst |->
                      IF shared /\ fs.dst[p].linked /\ fs.dst[p].from = old.from
                      THEN [fs.dst[p] EXCEPT !.size = 0]
                      ELSE fs.dst[p]]
    IN  [fs EXCEPT !.src = src1,
                   !.dst = IF dst \in DOMAIN fs.dst THEN dst1
                           ELSE (dst :> [size |-> 0, from |-> dst, linked |-> FALSE]) @@ dst1]

\* io.Copy(dstFile, srcFile) after the truncation: dst receives the bytes
\* the source holds now.
WriteCopy(fs, src, dst) ==
    LET keep == dst \in DOMAIN fs.dst /\ fs.dst[dst].linked /\ fs.dst[dst].from = src
    IN  [fs EXCEPT !.dst[dst] = [size |-> fs.src[src], from |-> src, linked |-> keep]]

\* A slip: the number of bytes copied is not compared with the expected one.
copyFileWithoutSizeCheck(fs, src, dst, expectedSize) ==
    IF src \notin DOMAIN fs.src
    THEN [err |-> Err("ENOENT", <<"failed to open source file", "open">> \o src
                                 \o <<"no such file or directory">>),
          fs  |-> fs]
    ELSE [err |-> NoErr, fs |-> WriteCopy(Truncate(fs, dst), src, dst)]

\* files.copyFile(src, dst, expectedSize)
copyFile(fs, src, dst, expectedSize) ==
    IF src \notin DOMAIN fs.src
    THEN [err |-> Err("ENOENT", <<"failed to open source file", "open">> \o src
                                 \o <<"no such file or directory">>),
          fs  |-> fs]
    ELSE LET fs1 == Truncate(fs, dst)
             fs2 == WriteCopy(fs1, src, dst)
         IN  IF fs2.dst[dst].size # expectedSize
             THEN [err |-> Err("size mismatch", <<"size mismatch">>), fs |-> fs2]
             ELSE [err |-> NoErr, fs |-> fs2]

\* files.createHardlink(src, dst, fallback, expectedSize)
createHardlink(fs, src, dst, fallback, expectedSize) ==
    LET l == OsLink(fs, src, dst)
    IN  IF l.err.kind = "nil" THEN l
        ELSE IF isCrossDeviceError(l.err)
        THEN CASE fallback = "copy"  -> copyFile(fs, src, dst, expectedSize)
               [] fallback = "error" ->
                     [err |-> Wrap("cross-device hardlink not allowed", l.err), fs |-> fs]
               [] OTHER ->
                     [err |-> Err("config", <<"invalid cross-device fallback option">>), fs |-> fs]
        ELSE [err |-> Wrap("failed to create hardlink", l.err), fs |-> fs]

\* A slip: the torrent name is never made a directory.
BuildDestPathAlwaysFlat(cfg, torrent, file) == Join(cfg.DestPath, file.Name)

\* files.BuildDestPath(cfg, torrent, file)
BuildDestPath(cfg, torrent, file) ==
    IF cfg.PreserveSubfolder
    THEN Join(Join(cfg.DestPath, torrent.Name), file.Name)
    ELSE Join(cfg.DestPath, file.Name)

\* The (*FileOperation)(nil) that LinkOrCopy returns beside an error.
NilOp == [Source |-> <<>>, Destination |-> <<>>, Size |-> 0, Success |-> FALSE,
          Error |-> NoErr, isNil |-> TRUE]

FileOperation(src, dst, size, err) ==
    [Source |-> src, Destination |-> dst, Size |-> size, Success |-> err.kind = "nil",
     Error |-> err, isNil |-> FALSE]

\* A slip in the marker test: the whole name is compared with the marker.
IsIncompleteWholeName(file) == file.Name = IncompleteMarker

\* The test LinkOrCopy makes first: strings.HasSuffix(file.Name, ".!qB")
IsIncomplete(file) == HasSuffix(file.Name, IncompleteMarker)

\* files.LinkOrCopy(cfg, torrent, file): [op, err, fs], fs the filesystem
\* the call leaves behind.
LinkOrCopy(cfg, torrent, file, fs) ==
    IF IsIncomplete(file)
    THEN [op |-> NilOp, err |-> Err("incomplete", <<"skipping incomplete file">>), fs |-> fs]
    ELSE
    LET sourcePath == Join(torrent.ContentPath, file.Name)
        destPath   == BuildDestPath(cfg, torrent, file)
    IN  IF StatOk(fs, destPath) /\ fs.dst[destPath].size = file.Size
        THEN [op |-> FileOperation(sourcePath, destPath, file.Size, NoErr),
              err |-> NoErr, fs |-> fs]
        ELSE IF MkdirAllFails(fs, Dir(destPath))
        THEN [op |-> NilOp,
              err |-> Err("mkdir", <<"failed to create destination directory">>),
              fs |-> fs]
        ELSE
        LET fs1 == MkdirAll(fs, Dir(destPath))
            r   == CASE cfg.Operation = "hardlink" ->
                          createHardlink(fs1, sourcePath, destPath,
                                         cfg.CrossDeviceFallback, file.Size)
                     [] cfg.Operation = "copy" ->
                          copyFile(fs1, sourcePath, destPath, file.Size)
                     [] OTHER ->
                          [err |-> Err("config", <<"unsupported operation">>), fs |-> fs1]
        IN  IF r.err.kind = "config" /\ cfg.Operation \notin {"hardlink", "copy"}
            THEN [op |-> NilOp, err |-> r.err, fs |-> r.fs]
            ELSE [op |-> FileOperation(sourcePath, destPath, file.Size, r.err),
                  err |-> r.err, fs |-> r.fs]


\* ---------------------------------------------------------------- gateway

\* A slip in the list: "allocating" is missing.
isTransitionalStateWithoutAllocating(state) ==
    state \in {"checkingDL", "checkingUP", "checkingResumeData", "moving", "metaDL"}

\* qbit.isTransitionalState(state)
isTransitionalState(state) ==
    state \in {"checkingDL", "checkingUP", "checkingResumeData",
               "moving", "metaDL", "allocating"}

\* Torrent.Progress is a fraction; the model counts it in percent.
FullProgress == 100

\* The test FilterCompletedTorrents applies to one torrent.
IsCompletedIn(t, category) ==
    /\ t.Category = category
    /\ t.Progress = FullProgress
    /\ ~isTransitionalState(t.State)

\* qbit.FilterCompletedTorrents(torrents, category): the sub-sequence of the
\* torrents that pass the test, in the order of the listing.
RECURSIVE FilterCompletedTorrents(_, _)
FilterCompletedTorrents(torrents, category) ==
    IF torrents = <<>> THEN <<>>
    ELSE LET rest == FilterCompletedTorrents(Tail(torrents), category)
         IN  IF IsCompletedIn(Head(torrents), category)
             THEN <<Head(torrents)>> \o rest
             ELSE rest

\* ------------------------------------------------------- the input universe

Hashes == {"h1", "h2"}

TorrentName(h) == IF h = "h1" THEN <<"Movie">> ELSE <<"Show">>

\* content_path of a torrent as the client reports it
ContentPathOf(h) == Join(<<"downloads">>, TorrentName(h))

FA == [Name |-> <<"a", ".mkv">>, Size |-> 1]

FB == [Name |-> <<"b", ".mkv">>, Size |-> 2]

\* a file the client has not finished: its name ends with the marker
FQ == [Name |-> <<"b", ".mkv", ".!qB">>, Size |-> 1]

FileUniverse == {FA, FB, FQ}

\* a finished file whose name holds the text "EXDEV"
FX == [Name |-> <<"EXDEV", ".mkv">>, Size |-> 1]

\* a finished file in a subdirectory of the torrent
FS == [Name |-> <<"Season", "/", "e1", ".mkv">>, Size |-> 1]

\* The files LinkOrCopy is called with in SpecPlace.
PlaceFiles == FileUniverse \cup {FX, FS}

\* The sequences without repetition over S of length at most n.
RECURSIVE SeqsUpTo(_, _)
SeqsUpTo(S, n) ==
    IF n = 0 THEN {<<>>}
    ELSE LET shorter == SeqsUpTo(S, n - 1)
         IN  shorter \cup
             {Append(q, x) : q \in {r \in shorter : Len(r) = n - 1},
                             x \in S} 

NoRepeat(q) == \A i, j \in 1..Len(q) : q[i] = q[j] => i = j

\* The file listings the client may hold for a torrent.
Listings == {q \in SeqsUpTo(FileUniverse, MaxFiles) : NoRepeat(q)}

\* What the client may report of a torrent when it is listed.
Reports ==
    LET done == [Category |-> "movies", Progress |-> FullProgress, State |-> "uploading"]
    IN  {done, [done EXCEPT !.Category = "tv"], [done EXCEPT !.Progress = 50],
         [done EXCEPT !.State = "moving"]}

Torrent(h, r) ==
    [Hash |-> h, Name |-> TorrentName(h), State |-> r.State, Progress |-> r.Progress,
     Category |-> r.Category, ContentPath |-> ContentPathOf(h)]

\* The sizes a source file may have on disk: the declared size, or one byte
\* more when the client's listing is out of step with the disk.
SourceSizes(f) == {f.Size, f.Size + 1}


\* ------------------------------------------------------------------ state

VARIABLES
    cfg,            \* config.Config: Monitor.* and Plex.Enabled
    present,        \* hashes of the torrents the client holds
    listing,        \* hash -> the file listing the client holds for it
    fs,             \* the filesystem (see above)
    mainPc,         \* main(): "load" (before config.LoadConfig), "start" (the
                    \*   Monitor is created), "waitsig", "exited" (main has
                    \*   returned: the process is gone, status 0), "fatal"
                    \*   (log.Fatalf: the process is gone, status 1)
    runPc,          \* Monitor.Run: "start", "login", "sleep", "waitsig", "wait",
                    \*   "done"
    loopPc,         \* Monitor.monitorLoop: "idle", "select", "list", "torrent",
                    \*   "file", "finish", "exited"; inside copyFile:
                    \*   "copyOpen", "copying", "copied"
    sigMain,        \* a signal is buffered in main's sigChan
    sigRun,         \* a signal is buffered in Run's sigChan
    cancelled,      \* m.ctx is done
    tickPending,    \* a tick is buffered in ticker.C
    backoff,        \* Monitor.backoff, in seconds
    inFlight,       \* processCompletedTorrents invocations that have not returned
    queue,          \* the torrents of this tick not yet processed; the head is
                    \*   the one ProcessTorrent works on
    torrentFiles,   \* ProcessTorrent: the listing fetched for the head
    fileIdx,        \* ProcessTorrent: index of the next file of the loop
    allSuccess,     \* ProcessTorrent: allSuccess
    processedCount, \* ProcessTorrent: processedCount
    ops,            \* the outcome of each LinkOrCopy call of the current pass
    lastPass,       \* what the ProcessTorrent pass that has just returned did
                    \*   (NoPass once the loop has moved on)
    loginFailures,  \* loginWithRetry: Login failures in a row so far
    sleepFor,       \* loginWithRetry: the duration of the time.Sleep in
                    \*   progress, in seconds (0 when none is)
    loggedIn,       \* client.Login has returned nil at least once
    tickFailures,   \* failed ticks in a row: ticks that returned an error
                    \*   since the start or the last tick that returned nil
    allTorrents,    \* processCompletedTorrents: the listing ListAllTorrents
                    \*   returned to the tick in flight
    attempted,      \* hashes of the torrents ProcessTorrent has been called
                    \*   for by the tick in flight, in order
    tickDirs        \* the destination directories the tick in flight has
                    \*   written to (touched) and has asked Plex to refresh
                    \*   (refreshed) so far

vars == <<cfg, present, listing, fs, mainPc, runPc, loopPc, sigMain, sigRun,
          cancelled, tickPending, backoff, inFlight, queue, torrentFiles,
          fileIdx, allSuccess, processedCount, ops, lastPass, loginFailures,
          sleepFor, loggedIn, tickFailures, allTorrents, attempted, tickDirs>>

lifeVars == <<mainPc, runPc, sigMain, sigRun, cancelled>>

loginVars == <<loginFailures, sleepFor, loggedIn>>

tickVars == <<tickFailures, allTorrents, attempted, tickDirs>>

passVars == <<torrentFiles, fileIdx, allSuccess, processedCount, ops>>

NoPass ==
    [hash |-> "none", fetched |-> FALSE, files |-> <<>>, ops |-> <<>>,
     refreshCalls |-> <<>>, refreshFailed |-> FALSE, deleteCalled |-> FALSE,
     calls |-> <<>>, err |-> FALSE]

\* No directory written to or refreshed: the start of a tick.
NoDirs == [touched |-> {}, refreshed |-> {}]

\* The configurations validateConfig accepts, over the input universe.
Configs ==
    [Category : {"movies"}, DestPath : {<<"dest">>},
     Operation : {"hardlink", "copy"}, CrossDeviceFallback : {"copy", "error"},
     DeleteTorrent : BOOLEAN, DeleteFiles : BOOLEAN, PreserveSubfolder : BOOLEAN,
     DryRun : BOOLEAN, PlexEnabled : BOOLEAN]

SourcePath(h, f) == Join(ContentPathOf(h), f.Name)

\* The source tree in which the files of h1 are as `st` says and those of
\* h2 are as the client declares them.
SourceTree(l, st) ==
    LET I1   == {i \in 1..Len(l["h1"]) : st[i] # "missing"}
        P1   == {SourcePath("h1", l["h1"][i]) : i \in I1}
        P2   == {SourcePath("h2", l["h2"][i]) : i \in 1..Len(l["h2"])}
        size1(p) == LET i == CHOOSE i \in I1 : SourcePath("h1", l["h1"][i]) = p
                    IN  IF st[i] = "ok" THEN l["h1"][i].Size ELSE l["h1"][i].Size + 1
        size2(p) == LET i == CHOOSE i \in 1..Len(l["h2"]) : SourcePath("h2", l["h2"][i]) = p
                    IN  l["h2"][i].Size
    IN  [p \in P1 \cup P2 |-> IF p \in P1 THEN size1(p) ELSE size2(p)]

\* The file listings of the client: h1's is an input, h2 holds one file,
\* which has the name and the size of a file h1 may hold.
ListingsOf(l1) == [h \in Hashes |-> IF h = "h1" THEN l1 ELSE <<FA>>]

\* The filesystems a run may start from: nothing placed yet, each source
\* finished file of h1 as the client declares it, one byte longer, or
\* missing.
StartTrees(l) ==
    {[src |-> SourceTree(l, st), dst |-> <<>>, dirs |-> {}, xdev |-> x] :
        st \in {u \in [1..Len(l["h1"]) -> {"ok", "bigger", "missing"}] :
                   \A i \in 1..Len(l["h1"]) :
                      HasSuffix(l["h1"][i].Name, IncompleteMarker) => u[i] = "ok"},
        x \in BOOLEAN}

\* The monitor before its first pass: NewMonitor sets backoff to one second.
FreshMonitor ==
    /\ present = Hashes
    /\ sigMain = FALSE
    /\ sigRun = FALSE
    /\ cancelled = FALSE
    /\ tickPending = FALSE
    /\ backoff = InitialBackoff
    /\ inFlight = 0
    /\ queue = <<>>
    /\ torrentFiles = <<>>
    /\ fileIdx = 1
    /\ allSuccess = TRUE
    /\ processedCount = 0
    /\ ops = <<>>
    /\ lastPass = NoPass
    /\ loginFailures = 0
    /\ sleepFor = 0
    /\ tickFailures = 0
    /\ allTorrents = <<>>
    /\ attempted = <<>>
    /\ tickDirs = NoDirs

\* The configurations the whole program is started with below: everything
\* that the start-up, the loop and the shutdown read, with the placement
\* options at their defaults.
LifeConfigs ==
    {c \in Configs : /\ c.Operation = "hardlink"
                     /\ c.CrossDeviceFallback = "copy"
                     /\ c.PreserveSubfolder
                     /\ ~c.PlexEnabled
                     /\ c.DeleteTorrent}

\* The values the environment may give for the operation and the fallback:
\* none (the empty string), a valid one, one that is not valid.
RawOperations == {"", "hardlink", "move"}

RawFallbacks == {"", "copy", "skip"}

\* The configuration as LoadConfig reads it from the environment, before the
\* defaults are filled in.
RawConfigs ==
    {[c EXCEPT !.Operation = o, !.CrossDeviceFallback = f] :
        c \in LifeConfigs, o \in RawOperations, f \in RawFallbacks}

\* LoadConfig: the defaults of the fields that are not required
WithDefaults(c) ==
    [c EXCEPT !.Operation = IF @ = "" THEN "hardlink" ELSE @,
              !.CrossDeviceFallback = IF @ = "" THEN "copy" ELSE @]

\* A slip: the fallback is not validated.
validateConfigWithoutFallbackCheck(c) ==
    /\ c.Category # ""
    /\ c.DestPath # <<>>
    /\ c.Operation \in {"hardlink", "copy"}

\* config.validateConfig(cfg) returns nil
validateConfig(c) ==
    /\ c.Category # ""
    /\ c.DestPath # <<>>
    /\ c.Operation = "hardlink" \/ c.Operation = "copy"
    /\ c.CrossDeviceFallback = "copy" \/ c.CrossDeviceFallback = "error"

\* main() begins: the configuration is in the environment; the fields of
\* the Monitor are those NewMonitor gives them.
Init ==
    /\ cfg \in RawConfigs
    /\ listing = ListingsOf(<<FA, FQ>>)
    /\ fs \in {t \in StartTrees(listing) :
                  /\ ~t.xdev
                  /\ \A i \in 1..Len(listing["h1"]) :
                        /\ SourcePath("h1", listing["h1"][i]) \in DOMAIN t.src
                        /\ t.src[SourcePath("h1", listing["h1"][i])] = listing["h1"][i].Size}
    /\ mainPc = "load"
    /\ runPc = "start"
    /\ loopPc = "idle"
    /\ loggedIn = FALSE
    /\ FreshMonitor

\* Options that cannot matter are not varied: the fallback is read only
\* when a hard link crosses devices; DeleteFiles, which the client reads and
\* no pass does, is varied in Init above.
PassInputs(c, t) ==
    /\ (c.Operation = "copy" => ~t.xdev /\ c.CrossDeviceFallback = "copy")
    /\ (~t.xdev => c.CrossDeviceFallback = "copy")
    /\ ~c.DeleteFiles

\* The monitor loop has been started (login done) with any configuration,
\* any file listing of h1 and any source tree.
InitPass ==
    /\ cfg \in Configs
    /\ listing \in {ListingsOf(l1) : l1 \in Listings}
    /\ fs \in StartTrees(listing)
    /\ PassInputs(cfg, fs)
    /\ mainPc = "waitsig"
    /\ runPc = "waitsig"
    /\ loopPc = "select"
    /\ loggedIn = TRUE
    /\ FreshMonitor

\* The process runs until main returns or log.Fatalf ends it.
Running == mainPc \notin {"exited", "fatal"}


\* ------------------------------------------------- main() and Monitor.Run

\* A SIGINT/SIGTERM reaches every channel registered with signal.Notify (a
\* send that does not block: a full channel drops it).  main registers its
\* channel before it starts Run; Run registers its own as it begins.
Signal ==
    /\ Running
    /\ mainPc = "waitsig"
    /\ sigMain' = TRUE
    /\ sigRun' = IF runPc # "start" THEN TRUE ELSE sigRun
    /\ UNCHANGED <<cfg, present, listing, fs, mainPc, runPc, loopPc, cancelled,
                   tickPending, backoff, inFlight, queue, passVars, lastPass,
                   loginVars, tickVars>>

\* main: cfg, err := config.LoadConfig(): the defaults are filled in and the
\* result validated.  On an error log.Fatalf ends the process with status 1;
\* otherwise main goes on to worker.NewMonitor(cfg).
MainLoadConfig ==
    /\ mainPc = "load"
    /\ cfg' = WithDefaults(cfg)
    /\ mainPc' = IF validateConfig(cfg') THEN "start" ELSE "fatal"
    /\ UNCHANGED <<present, listing, fs, runPc, loopPc, sigMain, sigRun,
                   cancelled, tickPending, backoff, inFlight, queue, passVars,
                   lastPass, loginVars, tickVars>>

\* main: signal.Notify(sigChan, ...); go monitor.Run()
MainGoRun ==
    /\ mainPc = "start"
    /\ mainPc' = "waitsig"
    /\ UNCHANGED <<cfg, present, listing, fs, runPc, loopPc, sigMain, sigRun,
                   cancelled, tickPending, backoff, inFlight, queue, passVars,
                   lastPass,
                   loginVars, tickVars>>

\* main: <-sigChan; log; return.  Returning from main ends the process and
\* every goroutine with it.
MainExit ==
    /\ mainPc = "waitsig"
    /\ sigMain
    /\ mainPc' = "exited"
    /\ sigMain' = FALSE
    /\ UNCHANGED <<cfg, present, listing, fs, runPc, loopPc, sigRun, cancelled,
                   tickPending, backoff, inFlight, queue, passVars, lastPass,
                   loginVars, tickVars>>

\* A different Run: the loop goroutine is started before the login.
RunNotifyStartsLoopFirst ==
    /\ Running
    /\ mainPc = "waitsig"
    /\ runPc = "start"
    /\ runPc' = "login"
    /\ loopPc' = "select"
    /\ UNCHANGED <<cfg, present, listing, fs, mainPc, sigMain, sigRun,
                   cancelled, tickPending, backoff, inFlight, queue, passVars,
                   lastPass, loginVars, tickVars>>

\* Run: sigChan := make(...); signal.Notify(sigChan, ...)
RunNotify ==
    /\ Running
    /\ mainPc = "waitsig"
    /\ runPc = "start"
    /\ runPc' = "login"
    /\ UNCHANGED <<cfg, present, listing, fs, mainPc, loopPc, sigMain, sigRun,
                   cancelled, tickPending, backoff, inFlight, queue, passVars,
                   lastPass,
                   loginVars, tickVars>>

\* Monitor.Run of the revision whose Run has no result (the one main's
\* "go monitor.Run()" fits): signal.Notify(sigChan, ...); m.wg.Add(1);
\* go m.monitorLoop().  No Login call is made before the loop starts.
RunGoLoop ==
    /\ Running
    /\ mainPc = "waitsig"
    /\ runPc = "start"
    /\ runPc' = "waitsig"
    /\ loopPc' = "select"
    /\ UNCHANGED <<cfg, present, listing, fs, mainPc, sigMain, sigRun, cancelled,
                   tickPending, backoff, inFlight, queue, passVars, lastPass,
                   loginVars, tickVars>>

\* One iteration of loginWithRetry.  With the context done it returns
\* ctx.Err() and Run returns that error.  Otherwise client.Login is called:
\* when it fails the loop calls time.Sleep(m.backoff) before it tries again;
\* when it succeeds loginWithRetry returns nil and Run does m.wg.Add(1);
\* go m.monitorLoop(), where monitorLoop creates its ticker.
Login ==
    /\ Running
    /\ runPc = "login"
    /\ IF cancelled
       THEN /\ runPc' = "done"
            /\ UNCHANGED <<loopPc, loginVars>>
       ELSE \E ok \in BOOLEAN :
               IF ok
               THEN /\ runPc' = "waitsig"
                    /\ loopPc' = "select"
                    /\ loggedIn' = TRUE
                    /\ loginFailures' = 0
                    /\ UNCHANGED sleepFor
               ELSE /\ loginFailures < MaxLoginFailures
                    /\ loginFailures' = loginFailures + 1
                    /\ sleepFor' = backoff
                    /\ runPc' = "sleep"
                    /\ UNCHANGED <<loopPc, loggedIn>>
    /\ UNCHANGED <<cfg, present, listing, fs, mainPc, sigMain, sigRun, cancelled,
                   tickPending, backoff, inFlight, queue, passVars, lastPass,
                   tickVars>>

\* time.Sleep returns; the loop of loginWithRetry goes round ("continue").
LoginWake ==
    /\ Running
    /\ runPc = "sleep"
    /\ runPc' = "login"
    /\ sleepFor' = 0
    /\ UNCHANGED <<cfg, present, listing, fs, mainPc, loopPc, sigMain, sigRun,
                   cancelled, tickPending, backoff, inFlight, queue, passVars,
                   lastPass, loginFailures, loggedIn, tickVars>>

\* Run: <-sigChan; m.cancel()
RunCancel ==
    /\ Running
    /\ runPc = "waitsig"
    /\ sigRun
    /\ sigRun' = FALSE
    /\ cancelled' = TRUE
    /\ runPc' = "wait"
    /\ UNCHANGED <<cfg, present, listing, fs, mainPc, loopPc, sigMain,
                   tickPending, backoff, inFlight, queue, passVars, lastPass,
                   loginVars, tickVars>>

\* Run: m.wg.Wait() returns once monitorLoop has run its deferred wg.Done()
RunJoin ==
    /\ Running
    /\ runPc = "wait"
    /\ loopPc = "exited"
    /\ runPc' = "done"
    /\ UNCHANGED <<cfg, present, listing, fs, mainPc, loopPc, sigMain, sigRun,
                   cancelled, tickPending, backoff, inFlight, queue, passVars,
                   lastPass,
                   loginVars, tickVars>>


\* ---------------------------------------------------- Monitor.monitorLoop

\* min(a, b) of monitor.go
min(a, b) == IF a < b THEN a ELSE b

\* A slip in the arithmetic: the backoff grows by a second, not twofold.
BackoffAfterFailureAddsOne(b) == min(b + 1, MaxBackoff)

\* m.backoff after a failed tick
BackoffAfterFailure(b) == min(b * 2, MaxBackoff)

\* A different loop: an error from processCompletedTorrents ends it ("return"
\* in place of the backoff bookkeeping).
LoopAfterTickReturnsOnError(failed) == IF failed THEN "exited" ELSE "select"

\* Where monitorLoop is after processCompletedTorrents has returned, with an
\* error or without: the for loop goes round to its select.
LoopAfterTick(failed) == "select"

\* The ticker sends on ticker.C, a channel of capacity one, every poll
\* interval; a tick the loop has not taken yet is not doubled.
TimerFire ==
    /\ Running
    /\ loopPc \notin {"idle", "exited"}
    /\ ~tickPending
    /\ tickPending' = TRUE
    /\ UNCHANGED <<cfg, present, listing, fs, lifeVars, loopPc, backoff,
                   inFlight, queue, passVars, lastPass,
                   loginVars, tickVars>>

\* select: the case <-m.ctx.Done() may be taken
CanSelectDone == loopPc = "select" /\ cancelled

\* A different design: every timer fire runs a tick of its own (as with
\* time.AfterFunc or "go m.processCompletedTorrents()"), whether or not the
\* previous tick has returned.
CanSelectTickWhileBusy == loopPc \notin {"idle", "exited"} /\ tickPending

\* A different loop: while the backoff is above its initial value the tick is
\* put off.
CanSelectTickAfterBackoff == loopPc = "select" /\ tickPending /\ backoff = InitialBackoff

\* select: the case <-ticker.C may be taken.  When both cases are ready the
\* Go runtime picks one of them at random.
CanSelectTick == loopPc = "select" /\ tickPending

\* case <-m.ctx.Done(): return (deferred: ticker.Stop(), m.wg.Done())
LoopExit ==
    /\ Running
    /\ CanSelectDone
    /\ loopPc' = "exited"
    /\ tickPending' = FALSE
    /\ UNCHANGED <<cfg, present, listing, fs, lifeVars, backoff, inFlight,
                   queue, passVars, lastPass,
                   loginVars, tickVars>>

\* case <-ticker.C: processCompletedTorrents() is entered
TickStart ==
    /\ Running
    /\ CanSelectTick
    /\ tickPending' = FALSE
    /\ loopPc' = "list"
    /\ inFlight' = inFlight + 1
    /\ UNCHANGED <<cfg, present, listing, fs, lifeVars, backoff, queue,
                   passVars, lastPass, loginVars, tickVars>>

\* A Gateway call made with m.ctx fails when the context is done, and may
\* fail for reasons of its own otherwise.
CallMayFail == TRUE

\* A different gateway: a call made with a cancelled context may still
\* succeed.
CallMaySucceedAfterCancel == TRUE

CallMaySucceed == ~cancelled

\* A different tick: when ListAllTorrents fails the tick logs in again and
\* repeats the call.
ListFailLogsInAgain ==
    /\ Running
    /\ loopPc = "list"
    /\ CallMayFail
    /\ tickFailures < MaxTickFailures
    /\ tickFailures' = tickFailures + 1
    /\ loggedIn' = TRUE
    /\ UNCHANGED <<cfg, present, listing, fs, lifeVars, loopPc, tickPending,
                   backoff, inFlight, queue, passVars, lastPass, allTorrents,
                   attempted, tickDirs, loginFailures, sleepFor>>

\* ListAllTorrents fails: processCompletedTorrents returns the error and the
\* loop doubles the backoff.
ListFail ==
    /\ Running
    /\ loopPc = "list"
    /\ CallMayFail
    /\ tickFailures < MaxTickFailures
    /\ tickFailures' = tickFailures + 1
    /\ backoff' = BackoffAfterFailure(backoff)
    /\ inFlight' = inFlight - 1
    /\ loopPc' = LoopAfterTick(TRUE)
    /\ UNCHANGED <<cfg, present, listing, fs, lifeVars, tickPending, queue,
                   passVars, lastPass, allTorrents, attempted, tickDirs,
                   loginVars>>

\* The torrents of the client as one ListAllTorrents call reports them.
AllTorrents(report) ==
    LET one(h) == IF h \in present THEN <<Torrent(h, report[h])>> ELSE <<>>
    IN  one("h1") \o one("h2")

\* What one ListAllTorrents call may report of the torrents: anything of
\* h1; h2 is complete or is being moved.
TickReports ==
    {r \in [Hashes -> Reports] :
        r["h2"].Category = "movies" /\ r["h2"].Progress = FullProgress}

\* A slip: the listing is processed as it came, without the filter.
TickTorrentsUnfiltered(all, category) == all

\* The torrents a tick processes: torrents :=
\* qbit.FilterCompletedTorrents(allTorrents, m.config.Monitor.Category)
TickTorrents(all, category) == FilterCompletedTorrents(all, category)

\* ListAllTorrents succeeds and the torrents are filtered; with nothing to
\* process the tick returns nil and the backoff is reset.
ListOk ==
    /\ Running
    /\ loopPc = "list"
    /\ CallMaySucceed
    /\ \E report \in TickReports :
          LET torrents == TickTorrents(AllTorrents(report), cfg.Category)
          IN  IF Len(torrents) = 0
              THEN /\ backoff' = InitialBackoff
                   /\ tickFailures' = 0
                   /\ inFlight' = inFlight - 1
                   /\ loopPc' = LoopAfterTick(FALSE)
                   /\ queue' = <<>>
                   /\ allTorrents' = <<>>
              ELSE /\ queue' = torrents
                   /\ allTorrents' = AllTorrents(report)
                   /\ loopPc' = "torrent"
                   /\ UNCHANGED <<backoff, inFlight, tickFailures>>
    /\ UNCHANGED <<cfg, present, listing, fs, lifeVars, tickPending, passVars,
                   lastPass, attempted, tickDirs,
                   loginVars>>

\* A different tick: the error of the last ProcessTorrent call is returned.
TickErrorFromLastTorrent(last) == last.err

\* Whether processCompletedTorrents returns an error once the loop over the
\* torrents is over, `last` being what the last ProcessTorrent call did: it
\* returns nil.
TickError(last) == FALSE

\* The loop over the torrents is over: processCompletedTorrents returns nil
\* and the loop resets the backoff.
TickReturn ==
    /\ Running
    /\ loopPc = "torrent"
    /\ queue = <<>>
    /\ backoff' = IF TickError(lastPass) THEN BackoffAfterFailure(backoff) ELSE InitialBackoff
    /\ tickFailures' = IF TickError(lastPass) THEN tickFailures + 1 ELSE 0
    /\ allTorrents' = <<>>
    /\ attempted' = <<>>
    /\ tickDirs' = NoDirs
    /\ inFlight' = inFlight - 1
    /\ loopPc' = LoopAfterTick(TickError(lastPass))
    /\ UNCHANGED <<cfg, present, listing, fs, lifeVars, tickPending, queue,
                   passVars, lastPass,
                   loginVars>>


\* --------------------------------------------------- Monitor.ProcessTorrent

\* The record of a LinkOrCopy call: the file, whether an error came back,
\* and op.Success (FALSE for a nil op).
Outcome(file, r) ==
    [file |-> file, err |-> r.err.kind, success |-> r.op.Success /\ r.err.kind = "nil"]

\* A slip in the bookkeeping: an error from LinkOrCopy is logged and the
\* file skipped without allSuccess being cleared.
AllSuccessAfterSkippingErrors(c, all, r) ==
    IF r.err.kind # "nil" THEN all
    ELSE IF c.DryRun THEN all
    ELSE IF ~r.op.Success THEN FALSE
    ELSE all

\* allSuccess after the loop body has handled the result r of LinkOrCopy
AllSuccessAfter(c, all, r) ==
    IF r.err.kind # "nil" THEN FALSE
    ELSE IF c.DryRun THEN all
    ELSE IF ~r.op.Success THEN FALSE
    ELSE all

\* processedCount after the loop body has handled the result r of LinkOrCopy
ProcessedAfter(c, n, r) ==
    IF r.err.kind # "nil" THEN n
    ELSE IF c.DryRun THEN n + 1
    ELSE IF ~r.op.Success THEN n
    ELSE n + 1

\* A slip in the guard: the dry-run flag is not consulted.
MayFinalizeInDryRun(c, all, nfiles) == all \/ nfiles = 0

\* The guard of the refresh-and-delete block after the loop over the files
MayFinalize(c, all, nfiles) == ~c.DryRun /\ (all \/ nfiles = 0)

\* The guard of the Plex refresh inside that block
MayRefresh(c, processed) == c.PlexEnabled /\ processed > 0

\* A slip in the guard: the torrent is deleted whatever the configuration
\* says.
MayDeleteRegardless(c) == TRUE

\* The guard of the DeleteTorrent call inside that block
MayDelete(c) == c.DeleteTorrent

\* refreshPlexLibraries from the i-th file on: the directories for which
\* RefreshPathForFile is called, in order.  `refreshed` is refreshedPaths;
\* `failing` holds the indexes of the files whose call fails.
RECURSIVE RefreshFrom(_, _, _, _, _, _)
RefreshFrom(c, torrent, files, i, refreshed, failing) ==
    IF i > Len(files) THEN <<>>
    ELSE LET dirPath == Dir(BuildDestPath(c, torrent, files[i]))
         IN  IF dirPath \in refreshed
             THEN RefreshFrom(c, torrent, files, i + 1, refreshed, failing)
             ELSE IF i \in failing
             THEN <<dirPath>> \o RefreshFrom(c, torrent, files, i + 1, refreshed, failing)
             ELSE <<dirPath>> \o RefreshFrom(c, torrent, files, i + 1,
                                             refreshed \cup {dirPath}, failing)

refreshPlexLibraries(c, torrent, files, failing) ==
    RefreshFrom(c, torrent, files, 1, {}, failing)

\* Whether one of the RefreshPathForFile calls of refreshPlexLibraries, from
\* the i-th file on, fails (a file whose directory is skipped makes no call).
RECURSIVE RefreshFails(_, _, _, _, _, _)
RefreshFails(c, torrent, files, i, refreshed, failing) ==
    IF i > Len(files) THEN FALSE
    ELSE LET dirPath == Dir(BuildDestPath(c, torrent, files[i]))
         IN  IF dirPath \in refreshed
             THEN RefreshFails(c, torrent, files, i + 1, refreshed, failing)
             ELSE IF i \in failing
             THEN TRUE
             ELSE RefreshFails(c, torrent, files, i + 1, refreshed \cup {dirPath}, failing)

\* A different block: the torrent is deleted before Plex is refreshed.
FinalCallsDeleteFirst(refreshCalls, delete) ==
    (IF delete THEN <<"DeleteTorrent">> ELSE <<>>)
    \o [i \in 1..Len(refreshCalls) |-> "RefreshPathForFile"]

\* The calls ProcessTorrent makes to its collaborators after the loop over
\* the files, in order: the refresh block, then the deletion block.
FinalCalls(refreshCalls, delete) ==
    [i \in 1..Len(refreshCalls) |-> "RefreshPathForFile"]
    \o (IF delete THEN <<"DeleteTorrent">> ELSE <<>>)

\* A different block: the torrent is kept when the refresh has failed.
ProceedsAfterRefreshOnlyOnSuccess(refreshFailed) == ~refreshFailed

\* ProcessTorrent after the refresh: a failure is logged, and the block goes
\* on to the deletion either way.
ProceedsAfterRefresh(refreshFailed) == TRUE

\* The client deleting a torrent: with deleteFiles it removes the files it
\* wrote for the torrent.
ClientDelete(f, h, deleteFiles) ==
    IF deleteFiles
    THEN [f EXCEPT !.src = [p \in {q \in DOMAIN f.src :
                                     \A i \in 1..Len(listing[h]) :
                                        q # SourcePath(h, listing[h][i])} |-> f.src[p]]]
    ELSE f

\* A different loop over the torrents: an error from ProcessTorrent is
\* returned ("return err" in place of the log line), the rest is dropped.
QueueAfterTorrentAbortsOnError(q, failed) == IF failed THEN <<>> ELSE Tail(q)

\* The torrents left to the tick once ProcessTorrent has returned for the
\* head, with an error (which is logged) or without.
QueueAfterTorrent(q, failed) == Tail(q)

\* FilesByHash fails (the torrent is unknown, the call fails): ProcessTorrent
\* returns the error, which processCompletedTorrents logs before it goes on.
FilesFail ==
    /\ Running
    /\ loopPc = "torrent"
    /\ queue # <<>>
    /\ CallMayFail
    /\ queue' = QueueAfterTorrent(queue, TRUE)
    /\ attempted' = Append(attempted, Head(queue).Hash)
    /\ lastPass' = [NoPass EXCEPT !.hash = Head(queue).Hash, !.err = TRUE]
    /\ UNCHANGED <<cfg, present, listing, fs, lifeVars, loopPc, tickPending,
                   backoff, inFlight, passVars, tickFailures, allTorrents,
                   tickDirs, loginVars>>

\* FilesByHash succeeds.  An empty listing makes ProcessTorrent return nil
\* at once; otherwise the loop over the files begins.
FilesOk ==
    /\ Running
    /\ loopPc = "torrent"
    /\ queue # <<>>
    /\ CallMaySucceed
    /\ Head(queue).Hash \in present
    /\ LET files == listing[Head(queue).Hash]
       IN  IF Len(files) = 0
           THEN /\ queue' = QueueAfterTorrent(queue, FALSE)
                /\ lastPass' = [NoPass EXCEPT !.hash = Head(queue).Hash, !.fetched = TRUE]
                /\ UNCHANGED <<loopPc, passVars>>
           ELSE /\ torrentFiles' = files
                /\ fileIdx' = 1
                /\ allSuccess' = TRUE
                /\ processedCount' = 0
                /\ ops' = <<>>
                /\ loopPc' = "file"
                /\ lastPass' = NoPass
                /\ UNCHANGED queue
    /\ attempted' = Append(attempted, Head(queue).Hash)
    /\ UNCHANGED <<cfg, present, listing, fs, lifeVars, tickPending, backoff,
                   inFlight, tickFailures, allTorrents, tickDirs,
                   loginVars>>

\* One iteration of the loop over the files: files.LinkOrCopy and the
\* bookkeeping of its result.
PlaceFile ==
    /\ Running
    /\ loopPc = "file"
    /\ \E file \in {torrentFiles[fileIdx]} :
         \E r \in {LinkOrCopy(cfg, Head(queue), file, fs)} :
           /\ fs' = r.fs
           /\ allSuccess' = AllSuccessAfter(cfg, allSuccess, r)
           /\ processedCount' = ProcessedAfter(cfg, processedCount, r)
           /\ ops' = Append(ops, Outcome(file, r))
           /\ tickDirs' = IF r.fs # fs
                          THEN [tickDirs EXCEPT !.touched =
                                   @ \cup {Dir(BuildDestPath(cfg, Head(queue), file))}]
                          ELSE tickDirs
    /\ fileIdx' = fileIdx + 1
    /\ loopPc' = IF fileIdx = Len(torrentFiles) THEN "finish" ELSE "file"
    /\ UNCHANGED <<cfg, present, listing, lifeVars, tickPending, backoff,
                   inFlight, queue, torrentFiles, lastPass,
                   loginVars, tickFailures, allTorrents, attempted>>

\* After the loop over the files: the Plex refresh, the DeleteTorrent call,
\* and the return to processCompletedTorrents.
FinishTorrent ==
    /\ Running
    /\ loopPc = "finish"
    /\ LET torrent  == Head(queue)
           final    == MayFinalize(cfg, allSuccess, Len(torrentFiles))
           refresh  == final /\ MayRefresh(cfg, processedCount)
       IN  \E failing \in SUBSET (1..Len(torrentFiles)), deleteOk \in BOOLEAN :
            LET calls  == IF refresh
                          THEN refreshPlexLibraries(cfg, torrent, torrentFiles, failing)
                          ELSE <<>>
                failed == refresh /\ RefreshFails(cfg, torrent, torrentFiles, 1, {}, failing)
                delete == final /\ ProceedsAfterRefresh(failed) /\ MayDelete(cfg)
            IN
              /\ cancelled => failing = 1..Len(torrentFiles) /\ ~deleteOk
              /\ ~refresh => failing = {}
              /\ ~delete => ~deleteOk
              /\ lastPass' =
                    [hash |-> torrent.Hash, fetched |-> TRUE, files |-> torrentFiles,
                     ops |-> ops,
                     refreshCalls |-> calls,
                     refreshFailed |-> failed,
                     deleteCalled |-> delete,
                     calls |-> FinalCalls(calls, delete),
                     err |-> delete /\ ~deleteOk]
              /\ tickDirs' = [tickDirs EXCEPT !.refreshed =
                                 @ \cup {calls[i] : i \in 1..Len(calls)}]
              /\ present' = IF delete /\ deleteOk THEN present \ {torrent.Hash} ELSE present
              /\ fs' = IF delete /\ deleteOk
                       THEN ClientDelete(fs, torrent.Hash, cfg.DeleteFiles)
                       ELSE fs
              /\ queue' = QueueAfterTorrent(queue, delete /\ ~deleteOk)
    /\ loopPc' = "torrent"
    /\ torrentFiles' = <<>>
    /\ fileIdx' = 1
    /\ allSuccess' = TRUE
    /\ processedCount' = 0
    /\ ops' = <<>>
    /\ UNCHANGED <<cfg, listing, lifeVars, tickPending, backoff, inFlight,
                   loginVars, tickFailures, allTorrents, attempted>>

\* ------------------------------------------------------- the specification

Next ==
    \/ Signal
    \/ MainLoadConfig
    \/ MainGoRun
    \/ MainExit
    \/ RunNotify
    \/ RunGoLoop
    \/ Login
    \/ LoginWake
    \/ RunCancel
    \/ RunJoin
    \/ TimerFire
    \/ LoopExit
    \/ TickStart
    \/ ListFail
    \/ ListOk
    \/ TickReturn
    \/ FilesFail
    \/ FilesOk
    \/ PlaceFile
    \/ FinishTorrent

Spec == Init /\ [][Next]_vars

\* The passes of a running loop whose listing calls succeed, over every
\* configuration, file listing and source tree of the input universe.  (A
\* failed listing changes nothing but the backoff, which no pass reads.)
NextPass ==
    \/ TimerFire
    \/ TickStart
    \/ ListOk
    \/ TickReturn
    \/ FilesFail
    \/ FilesOk
    \/ PlaceFile
    \/ FinishTorrent

SpecPass == InitPass /\ [][NextPass]_vars


\* LinkOrCopy on its own: one torrent, one file, any configuration, any
\* source file and any file already at the destination; the call is made
\* again and again on the same inputs, nothing else touching the filesystem.

\* What may be at the destination before the first call: nothing, or a file
\* of the declared size or one byte longer, a copy or a hard link.
DestBefore(c, t, f) ==
    {<<>>} \cup
    {BuildDestPath(c, t, f) :> [size |-> n, from |-> Join(t.ContentPath, f.Name), linked |-> k] :
        n \in SourceSizes(f), k \in BOOLEAN}

InitPlace ==
    /\ cfg \in {c \in Configs : ~c.DeleteTorrent /\ ~c.DeleteFiles /\ ~c.PlexEnabled}
    /\ \E f \in PlaceFiles :
          /\ listing = ListingsOf(<<f>>)
          /\ torrentFiles = <<f>>
    /\ queue = <<Torrent("h1", CHOOSE r \in Reports : IsCompletedIn(r, cfg.Category))>>
    /\ \E st \in {"ok", "bigger", "missing"}, x \in BOOLEAN,
          d \in DestBefore(cfg, Head(queue), torrentFiles[1]) :
          /\ fs = [src |-> SourceTree(listing, <<st>>), dst |-> d, dirs |-> {}, xdev |-> x]
          /\ \A p \in DOMAIN d : d[p].linked =>
                /\ ~x
                /\ d[p].from \in DOMAIN fs.src
                /\ fs.src[d[p].from] = d[p].size
    /\ present = Hashes
    /\ mainPc = "waitsig"
    /\ runPc = "waitsig"
    /\ loopPc = "place"
    /\ sigMain = FALSE
    /\ sigRun = FALSE
    /\ cancelled = FALSE
    /\ tickPending = FALSE
    /\ backoff = InitialBackoff
    /\ inFlight = 0
    /\ fileIdx = 1
    /\ allSuccess = TRUE
    /\ processedCount = 0
    /\ ops = <<>>
    /\ lastPass = NoPass
    /\ loginFailures = 0
    /\ sleepFor = 0
    /\ loggedIn = TRUE
    /\ tickFailures = 0
    /\ allTorrents = <<>>
    /\ attempted = <<>>
    /\ tickDirs = NoDirs

\* files.LinkOrCopy(cfg, torrent, file) is called once more.
PlaceAgain ==
    /\ loopPc = "place"
    /\ Len(ops) < MaxCalls
    /\ LET file == torrentFiles[1]
           r    == LinkOrCopy(cfg, Head(queue), file, fs)
       IN  /\ fs' = r.fs
           /\ ops' = Append(ops, Outcome(file, r))
    /\ UNCHANGED <<cfg, present, listing, lifeVars, loopPc, tickPending, backoff,
                   inFlight, queue, torrentFiles, fileIdx, allSuccess,
                   processedCount, lastPass,
                   loginVars, tickVars>>

SpecPlace == InitPlace /\ [][PlaceAgain]_vars


\* The whole program under the scheduling the Go runtime gives it: a
\* goroutine that can take a step takes one; which way a Gateway call or a
\* select with two ready cases goes is not constrained.
Fairness ==
    /\ WF_vars(MainLoadConfig)
    /\ WF_vars(MainGoRun)
    /\ WF_vars(MainExit)
    /\ WF_vars(RunNotify \/ RunGoLoop)
    /\ WF_vars(Login)
    /\ WF_vars(LoginWake)
    /\ WF_vars(RunCancel)
    /\ WF_vars(RunJoin)
    /\ WF_vars(LoopExit \/ TickStart)
    /\ WF_vars(ListFail \/ ListOk)
    /\ WF_vars(TickReturn \/ FilesFail \/ FilesOk)
    /\ WF_vars(PlaceFile)
    /\ WF_vars(FinishTorrent)

SpecFair == Spec /\ Fairness


\* FilterCompletedTorrents on its own: any listing of at most one record per
\* torrent, any of the two categories asked for.

\* The states qBittorrent reports: the six transitional ones and three others.
FilterStates ==
    {"checkingDL", "checkingUP", "checkingResumeData", "moving", "metaDL",
     "allocating", "uploading", "stalledUP", "pausedUP"}

FilterReports ==
    [Category : {"movies", "tv"}, Progress : {0, 50, FullProgress}, State : FilterStates]

\* The listings ListAllTorrents may return: no torrent, one, or both in
\* either order.
FilterInputs ==
    {<<>>}
    \cup {<<Torrent(h, r)>> : h \in Hashes, r \in FilterReports}
    \cup {l \in {<<Torrent(h, r), Torrent(g, q)>> :
                      h \in Hashes, g \in Hashes, r \in FilterReports, q \in FilterReports} :
               l[1].Hash # l[2].Hash}

InitFilter ==
    /\ \E c \in LifeConfigs, k \in {"movies", "tv"} :
          /\ ~c.DryRun /\ ~c.DeleteFiles
          /\ cfg = [c EXCEPT !.Category = k]
    /\ allTorrents \in FilterInputs
    /\ listing = ListingsOf(<<FA>>)
    /\ fs = [src |-> SourceTree(listing, <<"ok">>), dst |-> <<>>, dirs |-> {}, xdev |-> FALSE]
    /\ present = Hashes
    /\ mainPc = "waitsig"
    /\ runPc = "waitsig"
    /\ loopPc = "filter"
    /\ sigMain = FALSE
    /\ sigRun = FALSE
    /\ cancelled = FALSE
    /\ tickPending = FALSE
    /\ backoff = InitialBackoff
    /\ inFlight = 1
    /\ queue = <<>>
    /\ torrentFiles = <<>>
    /\ fileIdx = 1
    /\ allSuccess = TRUE
    /\ processedCount = 0
    /\ ops = <<>>
    /\ lastPass = NoPass
    /\ loginFailures = 0
    /\ sleepFor = 0
    /\ loggedIn = TRUE
    /\ tickFailures = 0
    /\ attempted = <<>>
    /\ tickDirs = NoDirs

\* torrents := qbit.FilterCompletedTorrents(allTorrents, category)
ApplyFilter ==
    /\ loopPc = "filter"
    /\ queue' = FilterCompletedTorrents(allTorrents, cfg.Category)
    /\ loopPc' = "filtered"
    /\ UNCHANGED <<cfg, present, listing, fs, lifeVars, tickPending, backoff,
                   inFlight, passVars, lastPass, loginVars, tickVars>>

SpecFilter == InitFilter /\ [][ApplyFilter]_vars


\* The loop when nothing goes wrong: deletion is configured, this is no dry
\* run, no signal arrives, every torrent the client holds is reported
\* complete in the monitored category, every call succeeds and every file is
\* placed.

\* The loop has been started; the files of h1 are any finished files (none
\* included), each source as the client declares it.
InitReconcile ==
    /\ cfg \in {c \in Configs : c.DeleteTorrent /\ ~c.DryRun}
    /\ listing \in {ListingsOf(l1) : l1 \in {l \in Listings : \A i \in 1..Len(l) : ~IsIncomplete(l[i])}}
    /\ fs \in {t \in StartTrees(listing) :
                  /\ \A i \in 1..Len(listing["h1"]) :
                        /\ SourcePath("h1", listing["h1"][i]) \in DOMAIN t.src
                        /\ t.src[SourcePath("h1", listing["h1"][i])] = listing["h1"][i].Size
                  /\ t.xdev => cfg.CrossDeviceFallback = "copy"}
    /\ PassInputs(cfg, fs)
    /\ mainPc = "waitsig"
    /\ runPc = "waitsig"
    /\ loopPc = "select"
    /\ loggedIn = TRUE
    /\ FreshMonitor

\* ListAllTorrents succeeds and reports every torrent complete.
ListCompleted == ListOk /\ Len(queue') = Cardinality(present)

\* files.LinkOrCopy places the file.
PlaceOk == PlaceFile /\ ops'[Len(ops')].success

\* The pass returns without an error: DeleteTorrent, if called, succeeds.
FinishOk ==
    /\ FinishTorrent
    /\ ~lastPass'.err
    /\ lastPass'.deleteCalled => lastPass'.hash \notin present'

NextReconcile ==
    \/ TimerFire
    \/ TickStart
    \/ ListCompleted
    \/ TickReturn
    \/ FilesOk
    \/ PlaceOk
    \/ FinishOk

\* The ticker fires every poll interval, and the loop goroutine, which is
\* at one place at a time, takes its next step.
FairReconcile ==
    /\ WF_vars(TimerFire)
    /\ WF_vars(TickStart \/ ListCompleted \/ TickReturn \/ FilesOk \/ PlaceOk \/ FinishOk)

SpecReconcile == InitReconcile /\ [][NextReconcile]_vars /\ FairReconcile


\* files.copyFile step by step, in a process that may receive a signal: the
\* loop goroutine is inside LinkOrCopy, which has made the directory and
\* calls copyFile for the one file of the torrent; main and Run wait for
\* their signal.  loopPc is "copyOpen" (copyFile is entered), "copying"
\* (the destination is open, io.Copy is writing) or "copied" (copyFile has
\* returned); the size of the destination counts the bytes written so far.

CopySrc == Join(Head(queue).ContentPath, torrentFiles[1].Name)

CopyDst == BuildDestPath(cfg, Head(queue), torrentFiles[1])

InitCopy ==
    /\ cfg \in {c \in Configs : /\ c.Operation = "copy" /\ c.CrossDeviceFallback = "copy"
                                 /\ c.DeleteTorrent /\ ~c.DeleteFiles /\ ~c.PlexEnabled
                                 /\ ~c.DryRun}
    /\ \E f \in {FA, FB} :
          /\ listing = ListingsOf(<<f>>)
          /\ torrentFiles = <<f>>
    /\ queue = <<Torrent("h1", CHOOSE r \in Reports : IsCompletedIn(r, cfg.Category))>>
    /\ \E st \in {"ok", "bigger", "missing"},
          d \in DestBefore(cfg, Head(queue), torrentFiles[1]) :
          /\ fs = [src |-> SourceTree(listing, <<st>>), dst |-> d,
                   dirs |-> {Dir(CopyDst)}, xdev |-> FALSE]
          /\ \A p \in DOMAIN d :
                /\ d[p].size # torrentFiles[1].Size
                /\ d[p].linked => /\ d[p].from \in DOMAIN fs.src
                                  /\ fs.src[d[p].from] = d[p].size
    /\ present = Hashes
    /\ mainPc = "waitsig"
    /\ runPc = "waitsig"
    /\ loopPc = "copyOpen"
    /\ sigMain = FALSE
    /\ sigRun = FALSE
    /\ cancelled = FALSE
    /\ tickPending = FALSE
    /\ backoff = InitialBackoff
    /\ inFlight = 1
    /\ fileIdx = 1
    /\ allSuccess = TRUE
    /\ processedCount = 0
    /\ ops = <<>>
    /\ lastPass = NoPass
    /\ loginFailures = 0
    /\ sleepFor = 0
    /\ loggedIn = TRUE
    /\ tickFailures = 0
    /\ allTorrents = <<>>
    /\ attempted = <<"h1">>
    /\ tickDirs = NoDirs

\* What LinkOrCopy returns when copyFile has returned err
CopyResult(err, f) ==
    [op  |-> FileOperation(CopySrc, CopyDst, torrentFiles[1].Size, err),
     err |-> err, fs |-> f]

\* copyFile: os.Open(src), srcFile.Stat(), os.OpenFile(dst, O_WRONLY|
\* O_CREATE|O_TRUNC): without the source copyFile returns at once; otherwise
\* the destination is created or emptied.
CopyOpen ==
    /\ Running
    /\ loopPc = "copyOpen"
    /\ IF CopySrc \notin DOMAIN fs.src
       THEN /\ ops' = Append(ops, Outcome(torrentFiles[1],
                         CopyResult(Err("ENOENT", <<"failed to open source file">>), fs)))
            /\ loopPc' = "copied"
            /\ UNCHANGED fs
       ELSE /\ fs' = Truncate(fs, CopyDst)
            /\ loopPc' = "copying"
            /\ UNCHANGED ops
    /\ UNCHANGED <<cfg, present, listing, lifeVars, tickPending, backoff,
                   inFlight, queue, torrentFiles, fileIdx, allSuccess,
                   processedCount, lastPass, loginVars, tickVars>>

\* io.Copy writes the next byte of the source to the destination.
CopyWrite ==
    /\ Running
    /\ loopPc = "copying"
    /\ fs.dst[CopyDst].size < fs.src[CopySrc]
    /\ fs' = [fs EXCEPT !.dst[CopyDst] =
                 [size |-> @.size + 1, from |-> CopySrc,
                  linked |-> @.linked /\ @.from = CopySrc]]
    /\ UNCHANGED <<cfg, present, listing, lifeVars, loopPc, tickPending, backoff,
                   inFlight, queue, passVars, lastPass, loginVars, tickVars>>

\* io.Copy reaches the end of the source; the size is verified and copyFile
\* returns (Sync and Chtimes change nothing of the model's filesystem).
CopyClose ==
    /\ Running
    /\ loopPc = "copying"
    /\ fs.dst[CopyDst].size = fs.src[CopySrc]
    /\ LET err == IF fs.dst[CopyDst].size # torrentFiles[1].Size
                  THEN Err("size mismatch", <<"size mismatch">>)
                  ELSE NoErr
       IN  ops' = Append(ops, Outcome(torrentFiles[1], CopyResult(err, fs)))
    /\ loopPc' = "copied"
    /\ UNCHANGED <<cfg, present, listing, fs, lifeVars, tickPending, backoff,
                   inFlight, queue, torrentFiles, fileIdx, allSuccess,
                   processedCount, lastPass, loginVars, tickVars>>

NextCopy ==
    \/ CopyOpen
    \/ CopyWrite
    \/ CopyClose
    \/ Signal
    \/ RunCancel
    \/ MainExit

SpecCopy == InitCopy /\ [][NextCopy]_vars


\* ================================================================== properties

\* The destination path of the i-th file of the pass that has just returned
PassDest(i) ==
    BuildDestPath(cfg, [Name |-> TorrentName(lastPass.hash)], lastPass.files[i])

Marked(i) == HasSuffix(lastPass.files[i].Name, IncompleteMarker)

\* C1: DeleteTorrent is invoked for a torrent only when deletion is
\* configured, the run is not a dry run, and every file of the torrent's
\* listing was placed successfully in the pass that ends with the delete:
\* each file has a successful outcome and is at its destination.  A pass
\* with a failed file outcome invokes no DeleteTorrent.
C1_DeleteOnlyAfterFullSuccess ==
    lastPass.deleteCalled =>
        /\ cfg.DeleteTorrent
        /\ ~cfg.DryRun
        /\ Len(lastPass.ops) = Len(lastPass.files)
        /\ \A i \in 1..Len(lastPass.files) :
              /\ lastPass.ops[i].file = lastPass.files[i]
              /\ lastPass.ops[i].success
              /\ PassDest(i) \in DOMAIN fs.dst

\* A torrent of two files is deleted after both were placed.
C1_Witness ==
    /\ lastPass.deleteCalled
    /\ Len(lastPass.files) >= 2
    /\ present # Hashes

\* C2: a completed torrent whose file listing is empty counts as a vacuous
\* success: with deletion configured and no dry run, the pass that fetched
\* the empty listing calls DeleteTorrent.
C2_EmptyListingIsDeleted ==
    (/\ lastPass.fetched
     /\ lastPass.files = <<>>
     /\ cfg.DeleteTorrent
     /\ ~cfg.DryRun) => lastPass.deleteCalled

\* C3: a file whose name ends with ".!qB" does not count as a failure: when
\* the listing holds such a file and every other file of it was placed
\* successfully, with deletion configured, the pass calls DeleteTorrent.
C3_MarkedFileDoesNotBlockDelete ==
    (/\ lastPass.fetched
     /\ Len(lastPass.ops) = Len(lastPass.files)
     /\ \E i \in 1..Len(lastPass.files) : Marked(i)
     /\ \A i \in 1..Len(lastPass.files) : ~Marked(i) => lastPass.ops[i].success
     /\ cfg.DeleteTorrent
     /\ ~cfg.DryRun) => lastPass.deleteCalled

\* C4: in every reachable state no file whose name ends with ".!qB" is at a
\* destination path, and every destination directory that exists is the
\* directory of a file of some listing whose name does not end with the
\* marker: for a marked file LinkOrCopy creates no directory, link or copy,
\* in every operation mode, fallback mode and dry-run setting.
C4_NoIncompleteFileAtDestination ==
    /\ \A p \in DOMAIN fs.dst : ~HasSuffix(p, IncompleteMarker)
    /\ \A d \in fs.dirs :
          \E h \in Hashes : \E i \in 1..Len(listing[h]) :
             /\ ~HasSuffix(listing[h][i].Name, IncompleteMarker)
             /\ d = Dir(BuildDestPath(cfg, [Name |-> TorrentName(h)], listing[h][i]))

\* A pass has met a marked file after it placed another file of the torrent.
C4_Witness ==
    /\ lastPass.fetched
    /\ Len(lastPass.ops) = 2
    /\ lastPass.ops[1].success
    /\ Marked(2)
    /\ lastPass.ops[2].err = "incomplete"
    /\ PassDest(1) \in DOMAIN fs.dst

\* C5: in dry-run mode no step of a tick changes the filesystem: after any
\* sequence of dry-run ticks the destination tree is as it was at the start
\* (no directory created, no link, no copy).
C5_DryRunLeavesTreeUntouched ==
    cfg.DryRun => DOMAIN fs.dst = {} /\ fs.dirs = {}

\* C6: in dry-run mode the engine never calls DeleteTorrent and never calls
\* the refresh collaborator, for any torrent in any tick, whatever the
\* deletion and refresh settings and whatever the file outcomes; no torrent
\* leaves the client.
C6_DryRunCallsNeitherDeleteNorRefresh ==
    cfg.DryRun =>
        /\ ~lastPass.deleteCalled
        /\ lastPass.refreshCalls = <<>>
        /\ present = Hashes

\* A dry-run pass, with deletion and refresh configured, in which every file
\* came back without an error.
C6_Witness ==
    /\ cfg.DryRun
    /\ cfg.DeleteTorrent
    /\ cfg.PlexEnabled
    /\ lastPass.fetched
    /\ Len(lastPass.ops) >= 1
    /\ \A i \in 1..Len(lastPass.ops) : lastPass.ops[i].success

\* C7: PlaceFile is idempotent: a second call with the same inputs, nothing
\* else having touched the filesystem after a first call that succeeded,
\* succeeds as well.
C7_SecondCallSucceeds ==
    (loopPc = "place" /\ Len(ops) >= 2 /\ ops[1].success) => ops[2].success

\* C8: on a termination signal the process does not exit while a tick is in
\* flight: main returns only after the monitor loop has returned from it.
C8_NoExitDuringTick ==
    mainPc = "exited" => inFlight = 0

\* C9: once the shared context has been cancelled the monitor loop accepts
\* no new tick: processCompletedTorrents is never entered after the
\* cancellation, even when a timer fire is pending at the next select.
C9_NoTickAfterCancel ==
    [][cancelled => inFlight' <= inFlight]_vars

\* C10: two ticks never execute concurrently: at most one invocation of
\* processCompletedTorrents is in progress at any time, also when the timer
\* fires again before the current tick has returned.
C10_AtMostOneTick ==
    inFlight <= 1

\* The timer has fired again while a tick is still in flight.
C10_Witness ==
    /\ inFlight = 1
    /\ loopPc \in {"file", "finish"}
    /\ tickPending

\* 2^n
RECURSIVE Pow2(_)
Pow2(n) == IF n = 0 THEN 1 ELSE 2 * Pow2(n - 1)

\* C11: the login retry loop backs off exponentially: the sleep after the
\* n-th Login failure in a row lasts min(2^(n-1), 120) seconds: 1s after the
\* first failure, then 2s, 4s, ..., 120s.
C11_LoginWaitDoubles ==
    runPc = "sleep" =>
        sleepFor = min(Pow2(loginFailures - 1) * InitialBackoff, MaxBackoff)

\* C12: a termination signal that arrives while Login keeps failing leads
\* to the context being cancelled and loginWithRetry returning the
\* cancellation error (unless a Login succeeds first).
C12_SignalEndsLoginRetry ==
    (runPc \in {"login", "sleep"} /\ sigRun)
        ~> (loggedIn \/ (cancelled /\ runPc = "done"))

\* C13: no tick runs before a successful login: processCompletedTorrents
\* is in flight, and the monitor loop has been started, only after
\* client.Login has returned nil at least once.
C13_NoTickBeforeLogin ==
    (inFlight > 0 \/ loopPc # "idle") => loggedIn

\* C14 as stated: one, two and three failed ticks in a row leave the backoff
\* at 1s, 2s and 4s; after a successful tick it is 1s.
C14_BackoffOneTwoFour ==
    /\ tickFailures = 0 => backoff = InitialBackoff
    /\ tickFailures \in 1..3 => backoff = Pow2(tickFailures - 1) * InitialBackoff

\* C14 amended: every failed tick doubles the backoff, from 1s and up to the
\* ceiling of 120s, so that n failed ticks in a row leave it at
\* min(2^n, 120) seconds (2s, 4s, 8s after one, two, three); after a
\* successful tick it is 1s again.
C14_BackoffDoublesPerFailedTick ==
    backoff = min(Pow2(tickFailures) * InitialBackoff, MaxBackoff)

C14_Witness == tickFailures = 3 /\ backoff = 8 /\ loopPc = "select"

\* The hashes of a sequence of torrents, in order
HashesOf(q) == [i \in 1..Len(q) |-> q[i].Hash]

\* The test of C17 and C18 on one torrent record, for the category asked
Eligible(t, category) ==
    /\ t.Category = category
    /\ t.Progress = FullProgress
    /\ t.State \notin {"checkingDL", "checkingUP", "checkingResumeData",
                       "moving", "metaDL", "allocating"}

\* The tick's listing holds the torrent h with the configured category,
\* full progress and a state that is not transitional.
EligibleNow(h) ==
    \E i \in 1..Len(allTorrents) :
        allTorrents[i].Hash = h /\ Eligible(allTorrents[i], cfg.Category)

\* The torrents of the listing of the tick in flight that pass the test
TickList == HashesOf(SelectSeq(allTorrents, LAMBDA t : Eligible(t, cfg.Category)))

\* C15: per-torrent errors are isolated: whatever ProcessTorrent returned
\* for the torrents before it, every torrent of the tick's filtered list
\* gets its ProcessTorrent call: while the tick is in flight each of them
\* has been attempted or is still queued, in the order of the list, and the
\* tick returns only with all of them attempted.
C15_EveryTorrentAttempted ==
    /\ loopPc = "torrent" => attempted \o HashesOf(queue) = TickList
    /\ loopPc \in {"file", "finish"} =>
          /\ queue # <<>>
          /\ attempted \o HashesOf(Tail(queue)) = TickList
          /\ attempted[Len(attempted)] = Head(queue).Hash
    /\ [][inFlight' < inFlight /\ loopPc = "torrent" => attempted = TickList]_vars

\* The only file of h1 has no source, so that ProcessTorrent failed on h1
\* (a hard link of a missing file); h2 has been processed after it in the
\* same tick.
C15_Witness ==
    /\ loopPc = "torrent"
    /\ attempted = <<"h1", "h2">>
    /\ queue = <<>>
    /\ cfg.Operation = "hardlink"
    /\ listing["h1"] = <<FA>>
    /\ SourcePath("h1", FA) \notin DOMAIN fs.src
    /\ lastPass.hash = "h2"
    /\ lastPass.fetched
    /\ Len(lastPass.ops) = 1

\* C16: a failed tick never stops the loop.  The loop ends only on the
\* cancellation of the context; a tick whose listing fails returns at once
\* (the failed step is not tried again inside the tick) to the select of
\* the loop; and, the context not being cancelled, the next step of the
\* loop after a failed tick is a new tick, which a timer fire is enough to
\* start.
C16_FailedTickKeepsLoop ==
    /\ [](loopPc = "exited" => cancelled)
    /\ []((tickFailures > 0 /\ loopPc = "select" /\ tickPending /\ Running)
             => ENABLED TickStart)
    /\ [][tickFailures' > tickFailures =>
             /\ loopPc = "list"
             /\ loopPc' = "select"
             /\ inFlight' = inFlight - 1]_vars
    /\ [][(tickFailures > 0 /\ loopPc = "select" /\ ~cancelled /\ loopPc' # loopPc) =>
             /\ loopPc' = "list"
             /\ inFlight' = inFlight + 1]_vars

\* A tick is in flight after ticks that failed.
C16_Witness ==
    /\ tickFailures >= 2
    /\ inFlight = 1
    /\ loopPc = "list"
    /\ ~cancelled

\* The destination paths of the files of the torrent at the head of the queue
HeadDests ==
    {BuildDestPath(cfg, Head(queue), listing[Head(queue).Hash][i]) :
        i \in 1..Len(listing[Head(queue).Hash])}

\* C17: in any tick, files are placed and DeleteTorrent is called only for
\* torrents that the listing of that same tick holds with the configured
\* category, full progress and a state that is not transitional.
C17_OnlyTorrentsOfThisListing ==
    /\ [](loopPc \in {"file", "finish"} =>
             /\ queue # <<>>
             /\ EligibleNow(Head(queue).Hash))
    /\ [][(fs' # fs \/ present' # present
             \/ (lastPass' # lastPass /\ lastPass'.deleteCalled)) =>
             /\ loopPc \in {"file", "finish"}
             /\ EligibleNow(Head(queue).Hash)
             /\ DOMAIN fs'.dst \ DOMAIN fs.dst \subseteq HeadDests
             /\ present \ present' \subseteq {Head(queue).Hash}
             /\ lastPass'.deleteCalled => lastPass'.hash = Head(queue).Hash]_vars

\* h1, which an earlier tick saw complete and placed, is listed with half
\* its progress; the tick has processed h2 alone.
C17_Witness ==
    /\ loopPc = "finish"
    /\ Head(queue).Hash = "h2"
    /\ attempted = <<"h2">>
    /\ \E i \in 1..Len(allTorrents) :
          allTorrents[i].Hash = "h1" /\ allTorrents[i].Progress # FullProgress
    /\ cfg.PreserveSubfolder
    /\ listing["h1"] # <<>>
    /\ BuildDestPath(cfg, [Name |-> TorrentName("h1")], listing["h1"][1]) \in DOMAIN fs.dst
    /\ BuildDestPath(cfg, Head(queue), listing["h2"][1]) \in DOMAIN fs.dst

\* C18: FilterCompletedTorrents(torrents, category) returns exactly the
\* torrents whose category is the one given, whose progress is 1.0 and whose
\* state is none of checkingDL, checkingUP, checkingResumeData, moving,
\* metaDL, allocating, in the order of the listing; the listing is not
\* changed.
C18_FilterIsExact ==
    /\ [](loopPc = "filtered" =>
             queue = SelectSeq(allTorrents, LAMBDA t : Eligible(t, cfg.Category)))
    /\ [][loopPc = "filter" => allTorrents' = allTorrents]_vars

\* Of two torrents with full progress in the category, the one that is
\* being allocated is left out.
C18_Witness ==
    /\ loopPc = "filtered"
    /\ Len(allTorrents) = 2
    /\ allTorrents[1].State = "allocating"
    /\ allTorrents[1].Progress = FullProgress
    /\ allTorrents[1].Category = cfg.Category
    /\ queue = <<allTorrents[2]>>

\* SpecPlace: the source and the destination path of the file LinkOrCopy is
\* called with
PlaceSrc == Join(Head(queue).ContentPath, torrentFiles[1].Name)

PlaceDst == BuildDestPath(cfg, Head(queue), torrentFiles[1])

\* The call about to be made is in hardlink mode and gets as far as os.Link:
\* the file is finished, no file of the declared size is at the destination
\* and the destination directory can be made.
LinkAttempted ==
    /\ loopPc = "place"
    /\ cfg.Operation = "hardlink"
    /\ ~HasSuffix(torrentFiles[1].Name, IncompleteMarker)
    /\ ~(PlaceDst \in DOMAIN fs.dst /\ fs.dst[PlaceDst].size = torrentFiles[1].Size)
    /\ \A p \in Ancestors(PlaceDst) : p \notin DOMAIN fs.dst

\* The errno os.Link fails with in that call ("nil" when it succeeds)
LinkErrno == OsLink(MkdirAll(fs, Dir(PlaceDst)), PlaceSrc, PlaceDst).err.kind

\* The step is a call of LinkOrCopy
PlaceCall == Len(ops') = Len(ops) + 1

\* C19: in hardlink mode, when the link attempt fails with a cross-device
\* error: with fallback "copy" (and a source that holds the declared number
\* of bytes) the operation succeeds and the destination is a copy, not a
\* link, of the declared size; with fallback "error" the operation fails,
\* the error being the cross-device one, and there is no destination file.
C19_CrossDeviceFallback ==
    [][(LinkAttempted /\ LinkErrno = "EXDEV" /\ PlaceCall) =>
          /\ (cfg.CrossDeviceFallback = "copy" /\ fs.src[PlaceSrc] = torrentFiles[1].Size) =>
                /\ ops'[Len(ops')].success
                /\ PlaceDst \in DOMAIN fs'.dst
                /\ fs'.dst[PlaceDst].size = torrentFiles[1].Size
                /\ ~fs'.dst[PlaceDst].linked
          /\ cfg.CrossDeviceFallback = "error" =>
                /\ ~ops'[Len(ops')].success
                /\ ops'[Len(ops')].err = "EXDEV"
                /\ PlaceDst \notin DOMAIN fs'.dst]_vars

\* A call across devices in hardlink mode has made the destination
\* directory and left a copy of the declared size.
C19_Witness ==
    /\ loopPc = "place"
    /\ Len(ops) = 1
    /\ ops[1].success
    /\ cfg.Operation = "hardlink"
    /\ cfg.CrossDeviceFallback = "copy"
    /\ fs.xdev
    /\ fs.dirs # {}
    /\ PlaceDst \in DOMAIN fs.dst
    /\ ~fs.dst[PlaceDst].linked
    /\ fs.dst[PlaceDst].size = torrentFiles[1].Size

\* C20: the copy fallback is for the cross-device error alone: when os.Link
\* fails because the destination exists or the source is missing, the file
\* operation fails with that error and nothing is copied (the files at the
\* destination and the sources are as they were), whatever the fallback.
C20_OtherLinkFailuresAreHard ==
    [][(LinkAttempted /\ LinkErrno \in {"EEXIST", "ENOENT"} /\ PlaceCall) =>
          /\ ~ops'[Len(ops')].success
          /\ ops'[Len(ops')].err = LinkErrno
          /\ fs'.dst = fs.dst
          /\ fs'.src = fs.src]_vars

\* The call about to be made copies the file: copy mode, or hardlink mode
\* with a link that fails across devices and the fallback "copy"; the source
\* can be opened.
CopyAttempted ==
    /\ loopPc = "place"
    /\ ~HasSuffix(torrentFiles[1].Name, IncompleteMarker)
    /\ ~(PlaceDst \in DOMAIN fs.dst /\ fs.dst[PlaceDst].size = torrentFiles[1].Size)
    /\ \A p \in Ancestors(PlaceDst) : p \notin DOMAIN fs.dst
    /\ \/ cfg.Operation = "copy"
       \/ cfg.Operation = "hardlink" /\ LinkErrno = "EXDEV" /\ cfg.CrossDeviceFallback = "copy"
    /\ PlaceSrc \in DOMAIN fs.src

\* C21: a copy of a source that does not hold the declared number of bytes
\* (so that the bytes written differ from the declared size) fails with the
\* size-mismatch error: the FileOperation is not a success, and the file
\* written at the destination is left there.
C21_SizeMismatchFailsAndLeavesFile ==
    [][(CopyAttempted /\ fs.src[PlaceSrc] # torrentFiles[1].Size /\ PlaceCall) =>
          /\ ~ops'[Len(ops')].success
          /\ ops'[Len(ops')].err = "size mismatch"
          /\ PlaceDst \in DOMAIN fs'.dst
          /\ fs'.dst[PlaceDst].size # torrentFiles[1].Size]_vars

\* A copy has failed on the size; the two bytes it wrote are at the
\* destination.
C21_Witness ==
    /\ loopPc = "place"
    /\ Len(ops) = 1
    /\ ops[1].err = "size mismatch"
    /\ cfg.Operation = "copy"
    /\ PlaceDst \in DOMAIN fs.dst
    /\ fs.dst[PlaceDst].size = torrentFiles[1].Size + 1
    /\ fs.dirs # {}

\* The destination of the file as C22 spells it out
ExpectedDest ==
    IF cfg.PreserveSubfolder
    THEN cfg.DestPath \o <<"/">> \o Head(queue).Name \o <<"/">> \o torrentFiles[1].Name
    ELSE cfg.DestPath \o <<"/">> \o torrentFiles[1].Name

\* C22: with preserveSubfolder the destination of a file is
\* destRoot/torrent.name/file.name, without it destRoot/file.name: a call
\* that succeeds leaves the file at that path and nowhere else, and the one
\* directory it makes is the directory of that path.
C22_DestinationPath ==
    (loopPc = "place" /\ Len(ops) >= 1 /\ ops[1].success) =>
        /\ DOMAIN fs.dst = {ExpectedDest}
        /\ fs.dirs \subseteq {SubSeq(ExpectedDest, 1, LastSep(ExpectedDest) - 1)}

\* A file of a subdirectory of the torrent has been placed under the
\* torrent's name.
C22_Witness ==
    /\ loopPc = "place"
    /\ Len(ops) >= 1
    /\ ops[1].success
    /\ cfg.PreserveSubfolder
    /\ torrentFiles[1] = FS
    /\ <<"dest", "/", "Movie", "/", "Season", "/", "e1", ".mkv">> \in DOMAIN fs.dst
    /\ fs.dirs = {<<"dest", "/", "Movie", "/", "Season">>}

\* A ProcessTorrent pass returns with this step.
PassReturns == loopPc = "finish" /\ loopPc' = "torrent"

\* C23: within one tick RefreshPathForFile is never invoked twice for the
\* same destination directory, over all the files and all the torrents of
\* the tick: the calls of a pass name no directory twice, and none that an
\* earlier pass of the same tick has already named.
C23_NoDirectoryRefreshedTwiceInATick ==
    [][PassReturns =>
          /\ NoRepeat(lastPass'.refreshCalls)
          /\ \A i \in 1..Len(lastPass'.refreshCalls) :
                lastPass'.refreshCalls[i] \notin tickDirs.refreshed]_vars

\* C24: the refresh is invoked only if Plex is enabled and processedCount is
\* positive, and only for directories the tick has written to; a tick that
\* found every file in place asks for no refresh.
C24_RefreshOnlyForTouchedDirectories ==
    [][PassReturns =>
          /\ lastPass'.refreshCalls # <<>> => cfg.PlexEnabled /\ processedCount > 0
          /\ \A i \in 1..Len(lastPass'.refreshCalls) :
                lastPass'.refreshCalls[i] \in tickDirs.touched]_vars

\* C25: a refresh that fails is never fatal: with deletion configured the
\* DeleteTorrent call is still made in the same pass, the pass reports no
\* error but that of the deletion, and the tick goes on to the next torrent
\* and returns nil (the backoff is left alone and then reset).
C25_RefreshFailureIsNotFatal ==
    [][(PassReturns /\ lastPass'.refreshFailed) =>
          /\ cfg.DeleteTorrent => lastPass'.deleteCalled
          /\ lastPass'.err => lastPass'.deleteCalled
          /\ queue' = Tail(queue)
          /\ backoff' = backoff
          /\ inFlight' = inFlight]_vars

\* A refresh has failed and the torrent has been deleted all the same.
C25_Witness ==
    /\ lastPass.refreshFailed
    /\ lastPass.refreshCalls # <<>>
    /\ lastPass.deleteCalled
    /\ ~lastPass.err
    /\ lastPass.hash \notin present
    /\ cfg.PlexEnabled

\* The operation or the fallback is set to a value other than the two
\* enumerated ones (the empty string is a variable that is not set).
InvalidValue(c) ==
    \/ c.Operation \notin {"", "hardlink", "copy"}
    \/ c.CrossDeviceFallback \notin {"", "copy", "error"}

\* C26: with an operation other than hardlink or copy, or a fallback other
\* than copy or error, main never gets past LoadConfig: no Monitor is
\* created, Run and the loop are never started, no Login and no tick
\* happens, and the one step main takes ends the process with status 1.
C26_InvalidConfigurationNeverRuns ==
    /\ [](InvalidValue(cfg) =>
             /\ mainPc \in {"load", "fatal"}
             /\ runPc = "start"
             /\ loopPc = "idle"
             /\ ~loggedIn
             /\ loginFailures = 0
             /\ inFlight = 0
             /\ ~tickPending)
    /\ [][InvalidValue(cfg) => mainPc' = "fatal" /\ InvalidValue(cfg')]_vars

\* The process has been ended by log.Fatalf for a fallback of "skip" (the
\* operation was left to its default).
C26_Witness ==
    /\ mainPc = "fatal"
    /\ cfg.Operation = "hardlink"
    /\ cfg.CrossDeviceFallback = "skip"
    /\ runPc = "start"
    /\ loopPc = "idle"

\* C27: when nothing goes wrong (SpecReconcile) every torrent the client
\* holds is eventually deleted from it, and once it is gone no later tick
\* runs a pass for it, places a file of it or deletes it again.
C27_CompletedTorrentIsEventuallyDeleted ==
    /\ \A h \in Hashes : (h \in present) ~> (h \notin present)
    /\ [][\A h \in Hashes : h \notin present =>
             /\ h \notin present'
             /\ lastPass' # lastPass => lastPass'.hash # h
             /\ (queue' # <<>> /\ loopPc' \in {"file", "finish"}) => Head(queue').Hash # h]_vars

\* C28: the cadence of the ticks does not depend on the backoff: whatever
\* the backoff, a running loop at its select takes a pending tick, and the
\* ticker of a running loop fires whenever its channel is empty; a tick
\* starts only by taking a tick of the ticker, and neither the fire nor the
\* start changes the backoff.
C28_CadenceIgnoresBackoff ==
    /\ []((Running /\ loopPc = "select" /\ tickPending) => ENABLED TickStart)
    /\ []((Running /\ loopPc \notin {"idle", "exited"} /\ ~tickPending) => ENABLED TimerFire)
    /\ [][inFlight' > inFlight =>
             /\ loopPc = "select" /\ tickPending /\ ~tickPending'
             /\ backoff' = backoff]_vars
    /\ [][tickPending' # tickPending => backoff' = backoff]_vars

\* A tick has started with the backoff at its cap.
C28_Witness ==
    /\ backoff = MaxBackoff
    /\ loopPc = "list"
    /\ inFlight = 1
    /\ ~tickPending

\* The places of Run that read m.backoff (loginWithRetry: the log line and
\* the time.Sleep)
RunReadsBackoff == runPc \in {"login", "sleep"}

\* C29: the backoff is never accessed by two goroutines at once: while Run
\* is in its login retry loop, the one place outside the loop that reads the
\* backoff, the loop goroutine has not been started; and the backoff changes
\* only in a step of the loop goroutine in which a tick returns.
C29_BackoffHasOneWriterAtATime ==
    /\ [](RunReadsBackoff => loopPc = "idle" /\ inFlight = 0)
    /\ [][backoff' # backoff =>
             /\ loopPc \in {"list", "torrent"} /\ loopPc' = "select"
             /\ inFlight' = inFlight - 1
             /\ runPc' = runPc /\ ~RunReadsBackoff
             /\ mainPc' = mainPc]_vars

\* The login retry loop has returned and Run waits for its signal; the loop
\* has since doubled the backoff after a failed tick.
C29_Witness ==
    /\ loggedIn
    /\ runPc = "waitsig"
    /\ backoff = 2 * InitialBackoff
    /\ loopPc = "select"
    /\ tickFailures = 1

\* client.Login is called in this step (it fails or succeeds).
LoginCalled == loginFailures' # loginFailures \/ loggedIn' # loggedIn

\* C30: Login is called only by the start-up retry loop, before the loop
\* goroutine exists, and never from within a tick; a tick whose Gateway call
\* fails returns to the select, and the next tick starts only on a tick of
\* the ticker.
C30_NoLoginWithinATick ==
    [][/\ LoginCalled => runPc = "login" /\ loopPc = "idle" /\ inFlight = 0
       /\ inFlight > 0 => loginFailures' = loginFailures /\ loggedIn' = loggedIn
       /\ inFlight' < inFlight => loopPc' = "select"
       /\ inFlight' > inFlight => loopPc = "select" /\ tickPending]_vars

\* After a login and a tick that failed the loop is at its select with no
\* tick pending: nothing happens until the ticker fires.
C30_Witness ==
    /\ loggedIn
    /\ loginFailures = 0
    /\ tickFailures >= 1
    /\ loopPc = "select"
    /\ ~tickPending
    /\ inFlight = 0

\* The destination holds fewer bytes than its source while no copy is at
\* work on it any more.
PartialDest ==
    /\ CopyDst \in DOMAIN fs.dst
    /\ CopySrc \in DOMAIN fs.src
    /\ fs.dst[CopyDst].size < fs.src[CopySrc]

\* C31: a copy that has started is not interrupted: the cancellation of the
\* context changes neither the filesystem nor the place of the copy, and a
\* copy that has opened its destination when the context is cancelled is
\* not left there by a process that has gone, so that no destination is
\* left partially written.
C31_StartedCopyRunsToItsEnd ==
    /\ [][cancelled' # cancelled => fs' = fs /\ loopPc' = loopPc]_vars
    /\ []((cancelled /\ loopPc = "copying") => Running)
    /\ []((cancelled /\ ~Running) => ~PartialDest)

\* C32: the order of the steps of a ProcessTorrent pass: a file is placed
\* only once the listing of the torrent has been fetched, while the torrent
\* is in the client and before any refresh or deletion of the pass; the
\* refresh and the deletion come when every file of the listing has been
\* through LinkOrCopy, the refresh calls before the one DeleteTorrent call.
C32_ListPlaceRefreshDelete ==
    /\ [][Len(ops') > Len(ops) =>
             /\ loopPc = "file"
             /\ torrentFiles = listing[Head(queue).Hash]
             /\ Len(ops) = fileIdx - 1
             /\ Head(queue).Hash \in present
             /\ lastPass = NoPass]_vars
    /\ [][PassReturns =>
             /\ Len(ops) = Len(torrentFiles)
             /\ lastPass'.files = listing[lastPass'.hash]
             /\ Len(lastPass'.calls) =
                   Len(lastPass'.refreshCalls) + (IF lastPass'.deleteCalled THEN 1 ELSE 0)
             /\ \A i \in 1..Len(lastPass'.calls) :
                   lastPass'.calls[i] = "DeleteTorrent" => i = Len(lastPass'.calls)]_vars

\* A pass has placed two files, then refreshed, then deleted.
C32_Witness ==
    /\ Len(lastPass.ops) = 2
    /\ \A i \in 1..2 : lastPass.ops[i].success
    /\ Len(lastPass.refreshCalls) >= 1
    /\ lastPass.calls[Len(lastPass.calls)] = "DeleteTorrent"
    /\ lastPass.calls[1] = "RefreshPathForFile"
    /\ lastPass.hash \notin present

\* The call about to be made finds, for a finished file whose source holds
\* the declared number of bytes, a destination of another size.
WrongSizeAtDest ==
    /\ loopPc = "place"
    /\ ~HasSuffix(torrentFiles[1].Name, IncompleteMarker)
    /\ PlaceDst \in DOMAIN fs.dst
    /\ fs.dst[PlaceDst].size # torrentFiles[1].Size
    /\ PlaceSrc \in DOMAIN fs.src
    /\ fs.src[PlaceSrc] = torrentFiles[1].Size

\* C33: a destination whose size differs from the declared one is replaced
\* by the next LinkOrCopy call for the file, in hardlink and in copy mode:
\* the call succeeds and leaves a destination of the declared size.
C33_WrongSizeIsReplaced ==
    [][(WrongSizeAtDest /\ PlaceCall) =>
          /\ ops'[Len(ops')].success
          /\ fs'.dst[PlaceDst].size = torrentFiles[1].Size]_vars

\* C34: in every reachable state the backoff is one of 1 s, 2 s, 4 s, 8 s,
\* 16 s, 32 s, 64 s and 120 s: at least a second, at most two minutes.
C34_BackoffValues ==
    /\ backoff \in {1, 2, 4, 8, 16, 32, 64, 120}
    /\ backoff >= 1
    /\ backoff <= 120

\* The backoff has reached two minutes and a further failed tick has left
\* it there.
C34_Witness ==
    /\ backoff = 120
    /\ tickFailures = 8
    /\ loopPc = "select"

\* C35: a tick is a failed one, with the backoff doubled, only when the
\* listing of the torrents fails: a tick that returns after its listing has
\* succeeded resets the backoff to one second, whatever became of its
\* torrents (a listing of files that failed, a file that was not placed, a
\* DeleteTorrent call that failed).
C35_OnlyAFailedListingFailsTheTick ==
    [][inFlight' < inFlight =>
          /\ loopPc = "torrent" => backoff' = InitialBackoff
          /\ backoff' # InitialBackoff =>
                /\ loopPc = "list"
                /\ allTorrents = <<>>
                /\ backoff' = (IF 2 * backoff < MaxBackoff THEN 2 * backoff ELSE MaxBackoff)]_vars

\* A tick whose last torrent failed on DeleteTorrent has returned: the
\* backoff is at one second.
C35_Witness ==
    /\ loopPc = "select"
    /\ inFlight = 0
    /\ lastPass.hash = "h2"
    /\ lastPass.deleteCalled
    /\ lastPass.err
    /\ tickFailures = 0
    /\ backoff = InitialBackoff
    /\ attempted = <<>>

\* The file the loop of ProcessTorrent is at, its source and its destination
FileNow == torrentFiles[fileIdx]

SrcNow == Join(Head(queue).ContentPath, FileNow.Name)

DestNow == BuildDestPath(cfg, Head(queue), FileNow)

\* LinkOrCopy is called for FileNow in this step.
PlaceStep == loopPc = "file" /\ Len(ops') = Len(ops) + 1

\* An earlier pass has placed FileNow: its destination is a hard link to its
\* source, or a copy of its source of the declared size.
PlacedBefore ==
    /\ DestNow \in DOMAIN fs.dst
    /\ fs.dst[DestNow].from = SrcNow
    /\ fs.dst[DestNow].linked \/ fs.dst[DestNow].size = FileNow.Size

\* C36: a file that fails does not end the pass, undo it or delete the
\* torrent, and the next tick starts from what is in place: every file of
\* the listing is attempted, the files placed stay where they are, the
\* torrent is kept, and a file placed by an earlier pass is answered with
\* success by the size check, the filesystem left as it is.
C36_NoRollbackAndRetry ==
    /\ [][(PassReturns /\ \E i \in 1..Len(ops) : ~ops[i].success) =>
             /\ Len(ops) = Len(torrentFiles)
             /\ \A i \in 1..Len(ops) :
                   ops[i].success =>
                      BuildDestPath(cfg, Head(queue), torrentFiles[i]) \in DOMAIN fs'.dst
             /\ ~lastPass'.deleteCalled
             /\ Head(queue).Hash \in present']_vars
    /\ [][(PlaceStep /\ PlacedBefore) =>
             /\ ops'[Len(ops')].success
             /\ fs' = fs]_vars

\* The i-th file of the torrent at the head of the queue is at its
\* destination as a link to or a copy of the torrent's own source file.
OwnDataPlaced(i) ==
    LET dest == BuildDestPath(cfg, Head(queue), torrentFiles[i])
    IN  /\ dest \in DOMAIN fs.dst
        /\ fs.dst[dest].from = Join(Head(queue).ContentPath, torrentFiles[i].Name)

\* C37: when DeleteTorrent is called for a torrent, every file of its
\* listing is at its destination as a link to or a copy of the torrent's
\* own source file; a file of the same name and size that another torrent
\* has put there does not stand for it.
C37_DeletedTorrentHasItsOwnDataPlaced ==
    [][(PassReturns /\ lastPass'.deleteCalled) =>
          \A i \in 1..Len(torrentFiles) : OwnDataPlaced(i)]_vars

\* C38: whenever LinkOrCopy returns Success=true, by a hard link, a copy,
\* the cross-device fallback or the already-present shortcut, a file is at
\* the destination and its size is the declared file.Size.
C38_SuccessMeansDeclaredSizeAtDest ==
    [][(PlaceCall /\ ops'[Len(ops')].success) =>
          /\ PlaceDst \in DOMAIN fs'.dst
          /\ fs'.dst[PlaceDst].size = torrentFiles[1].Size]_vars

\* The step fetches the listing of a torrent and enters the loop over its
\* files.
ListingFetched == loopPc = "torrent" /\ loopPc' = "file"

\* C39: once the context is cancelled, the client failing every call made
\* with it, no torrent is deleted and the loop over the files of no further
\* torrent is entered: the only files still placed are the remaining ones
\* of the torrent whose listing was fetched before the cancellation.
C39_AfterCancelNoDeleteAndNoNewTorrent ==
    [][cancelled =>
          /\ present' = present
          /\ ~ListingFetched
          /\ PlaceStep => torrentFiles' = torrentFiles /\ queue' = queue]_vars

\* The context is cancelled while the process still runs, every file of
\* the torrent in progress has been placed, and deletion is configured: the
\* DeleteTorrent call is the next step.
C39_Witness ==
    /\ cancelled
    /\ Running
    /\ loopPc = "finish"
    /\ allSuccess
    /\ Len(ops) >= 1
    /\ cfg.DeleteTorrent
    /\ ~cfg.DryRun

\* Every file of the torrent being processed is at its destination with the
\* declared size.
TorrentInPlace ==
    /\ loopPc \in {"file", "finish"}
    /\ \A i \in 1..Len(torrentFiles) :
          LET dest == BuildDestPath(cfg, Head(queue), torrentFiles[i])
          IN  /\ dest \in DOMAIN fs.dst
              /\ fs.dst[dest].size = torrentFiles[i].Size

\* C40: with deletion disabled, processing a torrent whose files are all at
\* their destinations with the declared sizes changes nothing on disk (no
\* directory made, nothing linked, copied or truncated), calls DeleteTorrent
\* never and leaves the torrent in the client.
C40_SteadyStateWithoutDeletion ==
    [][(~cfg.DeleteTorrent /\ TorrentInPlace) =>
          /\ fs' = fs
          /\ ~lastPass'.deleteCalled
          /\ present' = present]_vars

\* A tick in the steady state: deletion is disabled, the loop over the files
\* of a torrent whose files are all in place has ended with every call
\* successful, and no call of this tick has changed the filesystem.
C40_Witness ==
    /\ ~cfg.DeleteTorrent
    /\ ~cfg.DryRun
    /\ loopPc = "finish"
    /\ TorrentInPlace
    /\ Len(ops) = Len(torrentFiles)
    /\ \A i \in 1..Len(ops) : ops[i].success
    /\ tickDirs.touched = {}

====
